---- MODULE Spec2Model ----
(***************************************************************************)
(* Model of the Redis key-value gateway (src/api/main.py and src/api/libs). *)
(* A request walks the chain  prometheus_middleware -> rate_limit_middleware *)
(* -> route dependencies (validate_api_key_dependency, RateLimiter) ->      *)
(* handler body.  The handler bodies are "async def" functions that call    *)
(* the blocking redis client, so one handler body never interleaves with    *)
(* another one; the environment (clock, backend outages) does interleave    *)
(* with the backend calls of a handler.                                     *)
(***************************************************************************)
EXTENDS Integers, Sequences, FiniteSets, TLC

VARIABLES
    now,                \* wall clock, whole seconds (datetime.utcnow().timestamp())
    backendUp,          \* whether the Redis server answers
    store,              \* Redis data: [db, key] -> record
    redis_connections,  \* main.py:59, db_index -> client object
    nextHandle,         \* identity of the next redis.Redis object constructed
    api_keys,           \* rows of table api_keys (apikey_manager.py:23-28)
    limiter,            \* fastapi_limiter counters, one per (caller, route)
    reqs,               \* in-flight requests, one record per slot
    nreq,               \* number of requests received so far
    rate_seen,          \* authenticated requests per ip_key (caller, window_start)
    rate_admitted,      \* requests let through per global_key (window_start)
    inserted            \* keys /add_apikey has answered 200 for, plus the rows at boot

vars == <<now, backendUp, store, redis_connections, nextHandle, api_keys,
          limiter, reqs, nreq, rate_seen, rate_admitted, inserted>>

(* ---------------------------- program constants ------------------------ *)
window_size == 60
global_limit == 1000
local_limit == 100
default_limit == 5
max_dbs == 15
max_retries == 3
limiter_times == 10
limiter_seconds == 5

ADMIN_API_KEY == "admin-secret"
\* request.client.host, an IPv4 address as its four numbers
LOCALHOST == <<127, 0, 0, 1>>

(* ------------------------------ model bounds --------------------------- *)
MaxTicks == 2
MaxReqs == 2
MaxRateReqs == 11
MaxRateTicks == 2
MaxConnReqs == 4
MaxKeyReqs == 3
MaxChainReqs == 2
MaxRoundReqs == 2
MaxRoundTicks == 2
MaxUpdReqs == 2
MaxUpdTicks == 2
MaxPoolReqs == 3
MaxCreateReqs == 2
MaxCreateTicks == 2

(* ------------------------------ value domains -------------------------- *)
Slots == {1, 2}
Keys == {"a"}
Values == {"v1", "v2"}
ModelDbs == {0, max_dbs}
DbInputs == {0 - 1, 0, max_dbs, max_dbs + 1}
REMOTE == <<10, 0, 0, 1>>
Ips == {LOCALHOST, REMOTE}
Creds == {"k1", "bad"}
\* the n-th of a series of distinct callers
Caller(n) == <<10, 1, n \div 256, n % 256>>
DataOps == {"create", "update", "get", "delete", "ttl"}

\* Optional[int] / Union[int, str] values of the pydantic models
NoneV == [kind |-> "none", n |-> 0]
IntV(n) == [kind |-> "int", n |-> n]
StrNoTTL == [kind |-> "str", n |-> 0]    \* the string "No TTL set"
TtlInputs == {NoneV, IntV(2)}

\* a Redis entry; exp is the absolute second at which it expires, 0 for none
Absent == [present |-> FALSE, val |-> "", exp |-> 0]
Entry(v, e) == [present |-> TRUE, val |-> v, exp |-> e]

T0 == window_size - 2

\* a redis.Redis client object: its identity and the db it is bound to
NoHandle == [id |-> 0, db |-> 0]
Handle(i, d) == [id |-> i, db |-> d]

IdleReq ==
    [pc |-> "idle", op |-> "none", ip |-> <<>>, cred |-> "", key |-> "",
     db |-> 0, val |-> "", ttl |-> NoneV, window_start |-> 0,
     status |-> 0, detail |-> "", out_value |-> "", out_ttl |-> NoneV,
     attempt |-> 0, r |-> NoHandle, probes |-> 0, calls |-> 0, writes |-> 0,
     cacheWrites |-> 0, cachedAtStart |-> NoHandle, acquired |-> "no",
     limited |-> FALSE, invoked |-> FALSE, existed |-> "unknown",
     ordinal |-> 0, downAll |-> TRUE, counted |-> 0, label |-> 0]

(* ------------------------------ pure helpers --------------------------- *)
\* the check left out: no index is refused
validate_db_index_any(db_index) == TRUE

\* main.py:126-128; TRUE when no ValueError is raised
validate_db_index(db_index) ==
    ~ (db_index \notin Int \/ db_index < 0 \/ db_index > max_dbs)

\* KeyValueInput, main.py:37-41: Field(0, ge=0, le=15), Field(None, ge=1)
BodyValid(d, t) ==
    /\ d >= 0 /\ d <= max_dbs
    /\ (t.kind = "int" => t.n >= 1)

\* main.py:108
WindowStart(t) == t - (t % window_size)

\* main.py:115-120
IpLimit(client_ip) == IF client_ip = LOCALHOST THEN local_limit ELSE default_limit

\* the SELECT without its WHERE clause: any row makes the key valid
validate_api_key_any_row(rows, api_key) == Len(rows) > 0

\* apikey_manager.py:42-48, SELECT 1 FROM api_keys WHERE key = ?
validate_api_key(rows, api_key) == \E i \in 1..Len(rows) : rows[i] = api_key

\* Redis EXISTS / GET / TTL on db d (valid index) and key k
Lookup(st, d, k) == IF <<d, k>> \in DOMAIN st THEN st[<<d, k>>] ELSE Absent
RedisExists(st, d, k) == Lookup(st, d, k).present

\* r.ttl(key): -2 for no key, -1 for a key without expiry, otherwise the
\* remaining time rounded to the nearest second (the server answers
\* (milliseconds + 500) / 1000).  The clock of the model counts whole seconds;
\* late says that the call falls into the second half of the current second,
\* where the remaining time rounds down to the next lower number
\* (0 in the last half second before the expiry).
RedisTTL(st, d, k, t, late) ==
    LET e == Lookup(st, d, k)
    IN  IF ~e.present THEN 0 - 2
        ELSE IF e.exp = 0 THEN 0 - 1
        ELSE (e.exp - t) - (IF late THEN 1 ELSE 0)

\* SET with KEEPTTL: a set without ex leaves the expiry of the key as it was
RedisSet_keepttl(st, d, k, v, t, clock) ==
    [x \in DOMAIN st \cup {<<d, k>>} |->
        IF x = <<d, k>>
        THEN Entry(v, IF t.kind = "int" /\ t.n # 0 THEN clock + t.n
                      ELSE Lookup(st, d, k).exp)
        ELSE st[x]]

\* r.set(key, value[, ex=ttl]), main.py:158-161 and 183-186
RedisSet(st, d, k, v, t, clock) ==
    [x \in DOMAIN st \cup {<<d, k>>} |->
        IF x = <<d, k>>
        THEN Entry(v, IF t.kind = "int" /\ t.n # 0 THEN clock + t.n ELSE 0)
        ELSE st[x]]

\* r.delete(key), main.py:231
RedisDelete(st, d, k) ==
    [x \in DOMAIN st \cup {<<d, k>>} |-> IF x = <<d, k>> THEN Absent ELSE st[x]]

\* dict with one item set: redis_connections[db_index] = ...
DictSet(c, d, h) == [x \in DOMAIN c \cup {d} |-> IF x = d THEN h ELSE c[x]]

\* replies a PING can produce: the server answers PONG, or the client
\* raises redis.ConnectionError / redis.TimeoutError
PingReplies(up) == IF up THEN {"PONG"} ELSE {"ConnectionError", "TimeoutError"}

Counter(f, k) == IF k \in DOMAIN f THEN f[k] ELSE 0
Bump(f, k) == [x \in DOMAIN f \cup {k} |-> IF x = k THEN Counter(f, k) + 1 ELSE f[x]]

(* ------------------------------- responses ----------------------------- *)
\* The request leaves the chain with a response (an HTTP status and a detail /
\* message): call_next returns it to prometheus_middleware, which increments
\* REQUEST_COUNT under the label of its status (main.py:93-96).  counted is
\* the number of increments made for the request, label the status label.
Respond(rq, code, text) ==
    [rq EXCEPT !.pc = "done", !.status = code, !.detail = text,
               !.counted = @ + 1, !.label = code]

\* An exception that no exception handler turns into a response leaves
\* "await call_next(request)" (main.py:93) by raising: the with block is left
\* (REQUEST_LATENCY observes the time), the two statements after the await
\* are skipped, and the server answers 500 "Internal Server Error" itself.
Unhandled(rq) ==
    [rq EXCEPT !.pc = "done", !.status = 500, !.detail = "Internal Server Error"]

\* "except Exception as e: raise HTTPException(status_code=500, detail=str(e))"
\* (main.py:170-172, 195-197, 218-220, 234-236, 255-257).  HTTPException is an
\* Exception, so the 400 / 404 raised inside the try block is caught here too.
HandlerExcept(rq, text) == Respond(rq, 500, text)

\* str() of an HTTPException raised inside the try block
StrHTTP(code) ==
    IF code = 400 THEN "400: Key already exists" ELSE "404: Key not found"

InHandler(rq) == rq.pc \in {"acquire", "exists", "write", "get", "ttl"}

\* handler bodies declared "def": they run in worker threads, side by side
NoOtherInHandler_threadpool(s) == TRUE

\* an "async def" handler body runs on the event loop without awaiting
NoOtherInHandler(s) == \A o \in Slots \ {s} : ~InHandler(reqs[o])

(* --------------------------------- Init -------------------------------- *)
\* The process after startup (main.py:74-79): no connection cached, no request
\* in flight.  Redis and the api_keys table outlive the process: db 0 holds
\* one key written earlier, db 15 is empty, one API key is registered.
Init ==
    /\ now = T0
    /\ backendUp = TRUE
    /\ store = [x \in ModelDbs \X Keys |-> IF x[1] = 0 THEN Entry("v1", 0) ELSE Absent]
    /\ redis_connections = [x \in {} |-> 0]
    /\ nextHandle = 1
    /\ api_keys = <<"k1">>
    /\ limiter = [x \in {} |-> [count |-> 0, exp |-> 0]]
    /\ reqs = [s \in Slots |-> IdleReq]
    /\ nreq = 0
    /\ rate_seen = [x \in {} |-> 0]
    /\ rate_admitted = [x \in {} |-> 0]
    /\ inserted = {"k1"}

(* ------------------------------ the pipeline --------------------------- *)
\* A request arrives: prometheus_middleware (main.py:86-96) starts the timer,
\* rate_limit_middleware (main.py:99-123) computes its keys and limits and
\* calls call_next unconditionally.  /add_apikey has no route dependencies;
\* /metrics is the mounted metrics_app (main.py:71), which has none either.
FirstStep(op) ==
    IF op = "add_apikey" THEN "add"
    ELSE IF op = "metrics" THEN "export"
    ELSE "auth"

Start(s, op, ip, cred, k, d, v, t) ==
    /\ reqs[s].pc = "idle"
    /\ reqs' = [reqs EXCEPT ![s] =
                  [IdleReq EXCEPT !.pc = FirstStep(op),
                                  !.op = op, !.ip = ip, !.cred = cred, !.key = k,
                                  !.db = d, !.val = v, !.ttl = t,
                                  !.window_start = WindowStart(now)]]
    /\ nreq' = nreq + 1
    /\ UNCHANGED <<now, backendUp, store, redis_connections, nextHandle, api_keys,
                   limiter, rate_seen, rate_admitted, inserted>>

\* validate_api_key_dependency, apikey_manager.py:51-54
Auth(s) ==
    /\ reqs[s].pc = "auth"
    /\ reqs' = [reqs EXCEPT ![s] =
                  IF validate_api_key(api_keys, @.cred)
                  THEN [@ EXCEPT !.pc = "limit"]
                  ELSE Respond(@, 403, "Invalid API Key")]
    /\ UNCHANGED <<now, backendUp, store, redis_connections, nextHandle, api_keys,
                   limiter, nreq, rate_seen, rate_admitted, inserted>>

\* the live count of a fastapi_limiter key
LimiterCount(lim, key, t) ==
    IF key \in DOMAIN lim /\ lim[key].exp > t THEN lim[key].count ELSE 0

\* Depends(RateLimiter(times=10, seconds=5)), main.py:149/174/199/222/238: the
\* limiter's script on key (caller, route): SET 1 PX 5000 when the key is
\* absent, INCR while below times, otherwise refuse (429) without counting.
LimiterAdmits(lim, key, t) == ~ (LimiterCount(lim, key, t) + 1 > limiter_times)

LimiterHit(lim, key, t) ==
    LET cur == LimiterCount(lim, key, t)
    IN  [x \in DOMAIN lim \cup {key} |->
            IF x # key THEN lim[x]
            ELSE IF cur > 0 THEN [count |-> cur + 1, exp |-> lim[key].exp]
            ELSE [count |-> 1, exp |-> t + limiter_seconds]]

\* The second route dependency, then request validation of the body model
\* (422) and the entry into the handler body.
Limit(s) ==
    LET rq == reqs[s]
        key == <<rq.ip, rq.op>>
        ipk == <<rq.ip, rq.window_start>>
        seen == [rq EXCEPT !.limited = TRUE, !.ordinal = Counter(rate_seen, ipk) + 1]
    IN  /\ rq.pc = "limit"
        /\ NoOtherInHandler(s)
        /\ IF ~backendUp
           THEN \* the limiter's own Redis call fails: unhandled, 500
                /\ reqs' = [reqs EXCEPT ![s] = Unhandled(rq)]
                /\ UNCHANGED <<limiter, rate_seen, rate_admitted, inserted>>
           ELSE /\ rate_seen' = Bump(rate_seen, ipk)
                /\ IF LimiterAdmits(limiter, key, now)
                   THEN /\ limiter' = LimiterHit(limiter, key, now)
                        /\ rate_admitted' = Bump(rate_admitted, rq.window_start)
                        /\ reqs' = [reqs EXCEPT ![s] =
                              IF rq.op \in {"create", "update"} /\ ~BodyValid(rq.db, rq.ttl)
                              THEN Respond(seen, 422, "Unprocessable Entity")
                              ELSE [seen EXCEPT !.pc = "acquire", !.invoked = TRUE]]
                   ELSE /\ reqs' = [reqs EXCEPT ![s] = Respond(seen, 429, "Too Many Requests")]
                        /\ UNCHANGED <<limiter, rate_admitted, inserted>>
        /\ UNCHANGED <<now, backendUp, store, redis_connections, nextHandle, api_keys, nreq, inserted>>

(* ------------------------- get_redis_connection ------------------------ *)
\* main.py:135, "db_index not in redis_connections or not ...ping()"; pong is
\* the value ping() returned (it is only called when the index is cached)
MustEstablish_ping_negated(conns, d, pong) == d \notin DOMAIN conns \/ pong

MustEstablish(conns, d, pong) == d \notin DOMAIN conns \/ ~pong

\* main.py:145, "if attempt == max_retries - 1"
LastAttempt(attempt) == attempt = max_retries - 1

\* main.py:133, "for attempt in range(max_retries)"
LoopRuns(attempt) == attempt < max_retries

AfterAcquire(op) == IF op = "ttl" THEN "ttl" ELSE "exists"

\* One iteration of the retry loop of get_redis_connection (main.py:131-146),
\* the first one preceded by validate_db_index.  redis.Redis(...) only builds
\* the client object: it opens no socket and cannot raise a connection error;
\* ping() is the one backend call made here.
Acquire(s) ==
    LET rq == reqs[s]
        d == rq.db
        first == [rq EXCEPT !.cachedAtStart =
                     IF rq.attempt = 0
                     THEN (IF d \in DOMAIN redis_connections
                           THEN redis_connections[d] ELSE NoHandle)
                     ELSE @,
                  !.downAll = @ /\ ~backendUp]
        fresh == Handle(nextHandle, d)
    IN  /\ rq.pc = "acquire"
        /\ IF ~validate_db_index(d)
           THEN /\ reqs' = [reqs EXCEPT ![s] =
                      HandlerExcept([rq EXCEPT !.acquired = "invalid"],
                                    "db_index must be an integer between 0 and 15.")]
                /\ UNCHANGED <<redis_connections, nextHandle, inserted>>
           ELSE IF ~LoopRuns(rq.attempt)
           THEN \* the loop ends without return or raise: the function returns
                \* None and the handler's first use of it raises AttributeError
                /\ reqs' = [reqs EXCEPT ![s] =
                      HandlerExcept([rq EXCEPT !.acquired = "none"],
                                    "'NoneType' object has no attribute")]
                /\ UNCHANGED <<redis_connections, nextHandle, inserted>>
           ELSE IF d \notin DOMAIN redis_connections
           THEN /\ MustEstablish(redis_connections, d, TRUE)
                /\ redis_connections' = DictSet(redis_connections, d, fresh)
                /\ nextHandle' = nextHandle + 1
                /\ reqs' = [reqs EXCEPT ![s] =
                      [first EXCEPT !.pc = AfterAcquire(rq.op), !.r = fresh,
                                    !.acquired = "handle", !.cacheWrites = @ + 1]]
           ELSE \E reply \in PingReplies(backendUp) :
                  LET pinged == [first EXCEPT !.probes = @ + 1, !.calls = @ + 1]
                  IN  IF reply \in {"ConnectionError", "TimeoutError"}
                      THEN /\ reqs' = [reqs EXCEPT ![s] =
                                 IF LastAttempt(rq.attempt)
                                 THEN HandlerExcept([pinged EXCEPT !.acquired = "error"],
                                                    "Failed to connect to Redis")
                                 ELSE [pinged EXCEPT !.attempt = @ + 1]]
                           /\ UNCHANGED <<redis_connections, nextHandle, inserted>>
                      ELSE IF MustEstablish(redis_connections, d, reply = "PONG")
                      THEN /\ redis_connections' = DictSet(redis_connections, d, fresh)
                           /\ nextHandle' = nextHandle + 1
                           /\ reqs' = [reqs EXCEPT ![s] =
                                 [pinged EXCEPT !.pc = AfterAcquire(rq.op), !.r = fresh,
                                                !.acquired = "handle",
                                                !.cacheWrites = @ + 1]]
                      ELSE /\ reqs' = [reqs EXCEPT ![s] =
                                 [pinged EXCEPT !.pc = AfterAcquire(rq.op),
                                                !.r = redis_connections[d],
                                                !.acquired = "handle"]]
                           /\ UNCHANGED <<redis_connections, nextHandle, inserted>>
        /\ UNCHANGED <<now, backendUp, store, api_keys, limiter, nreq,
                       rate_seen, rate_admitted, inserted>>

(* ------------------------------ handler bodies ------------------------- *)
ConnError == "Error connecting to Redis"

\* what the handler does with the reply of r.exists(key):
\* create (main.py:155-157) raises 400 on an existing key, update / get /
\* delete (main.py:180-182, 205-207, 228-230) raise 404 on a missing one
ExistsRaises(op, e) == IF op = "create" THEN e ELSE ~e
ExistsCode(op) == IF op = "create" THEN 400 ELSE 404

\* r.exists(key) and the branch on it
Exists(s) ==
    LET rq == reqs[s]
        e == RedisExists(store, rq.db, rq.key)
        called == [rq EXCEPT !.calls = @ + 1]
        known == [called EXCEPT !.existed = IF e THEN "yes" ELSE "no"]
    IN  /\ rq.pc = "exists"
        /\ reqs' = [reqs EXCEPT ![s] =
              IF ~backendUp THEN HandlerExcept(called, ConnError)
              ELSE IF ExistsRaises(rq.op, e)
              THEN HandlerExcept(known, StrHTTP(ExistsCode(rq.op)))
              ELSE [known EXCEPT !.pc = IF rq.op = "get" THEN "get" ELSE "write"]]
        /\ UNCHANGED <<now, backendUp, store, redis_connections, nextHandle, api_keys,
                       limiter, nreq, rate_seen, rate_admitted, inserted>>

\* the message of a successful write
WriteMessage(op) ==
    IF op = "create" THEN "Key created successfully"
    ELSE IF op = "update" THEN "Key updated successfully"
    ELSE "Key deleted successfully"

\* "if data.ttl: r.set(key, value, ex=data.ttl) else: r.set(key, value)"
\* (main.py:158-161, 183-186); the ttl argument actually passed to SET
SetTtl(t) == IF t.kind = "int" /\ t.n # 0 THEN t ELSE NoneV

\* r.set(...) of create / update, r.delete(key) of delete, and the response
Write(s) ==
    LET rq == reqs[s]
        called == [rq EXCEPT !.calls = @ + 1]
    IN  /\ rq.pc = "write"
        /\ IF ~backendUp
           THEN /\ reqs' = [reqs EXCEPT ![s] = HandlerExcept(called, ConnError)]
                /\ UNCHANGED store
           ELSE /\ store' = IF rq.op = "delete"
                            THEN RedisDelete(store, rq.db, rq.key)
                            ELSE RedisSet(store, rq.db, rq.key, rq.val, SetTtl(rq.ttl), now)
                /\ reqs' = [reqs EXCEPT ![s] =
                      Respond([called EXCEPT !.writes = @ + 1,
                                             !.out_value = rq.val, !.out_ttl = rq.ttl],
                              200, WriteMessage(rq.op))]
        /\ UNCHANGED <<now, backendUp, redis_connections, nextHandle, api_keys,
                       limiter, nreq, rate_seen, rate_admitted, inserted>>

\* value = r.get(key), main.py:208 ("" stands for None when the key is gone)
GetValue(s) ==
    LET rq == reqs[s]
        called == [rq EXCEPT !.calls = @ + 1]
    IN  /\ rq.pc = "get"
        /\ reqs' = [reqs EXCEPT ![s] =
              IF ~backendUp THEN HandlerExcept(called, ConnError)
              ELSE [called EXCEPT !.pc = "ttl",
                                  !.out_value = Lookup(store, rq.db, rq.key).val]]
        /\ UNCHANGED <<now, backendUp, store, redis_connections, nextHandle, api_keys,
                       limiter, nreq, rate_seen, rate_admitted, inserted>>

\* "ttl if ttl != -1 else None" (main.py:214) and
\* "ttl if ttl != -1 else 'No TTL set'" (main.py:248)
TtlField(op, ttl) ==
    IF ttl # 0 - 1 THEN IntV(ttl)
    ELSE IF op = "get" THEN NoneV ELSE StrNoTTL

\* ttl = r.ttl(key) of get (main.py:209-217) and of get_ttl (main.py:244-254)
TtlCall(s) ==
    LET rq == reqs[s]
        called == [rq EXCEPT !.calls = @ + 1]
    IN  /\ rq.pc = "ttl"
        /\ \E late \in BOOLEAN :
              LET ttl == RedisTTL(store, rq.db, rq.key, now, late)
              IN  reqs' = [reqs EXCEPT ![s] =
                    IF ~backendUp THEN HandlerExcept(called, ConnError)
                    ELSE IF rq.op = "ttl" /\ ttl = 0 - 2
                    THEN HandlerExcept([called EXCEPT !.existed = "no"], StrHTTP(404))
                    ELSE Respond([called EXCEPT !.out_ttl = TtlField(rq.op, ttl),
                                                !.existed = IF rq.op = "ttl" THEN "yes" ELSE @],
                                 200,
                                 IF rq.op = "get" THEN "Key retrieved successfully" ELSE "")]
        /\ UNCHANGED <<now, backendUp, store, redis_connections, nextHandle, api_keys,
                       limiter, nreq, rate_seen, rate_admitted, inserted>>

(* -------------------------------- add_apikey --------------------------- *)
\* main.py:263, "if x_api_key != ADMIN_API_KEY" refuses
AdminRefused(x_api_key) == x_api_key # ADMIN_API_KEY

\* the table created without UNIQUE: the INSERT never fails
IntegrityError_no_unique(rows, api_key) == FALSE

\* the UNIQUE constraint on column key (apikey_manager.py:25) makes the INSERT
\* raise sqlite3.IntegrityError
IntegrityError(rows, api_key) == \E i \in 1..Len(rows) : rows[i] = api_key

\* add_api_key, apikey_manager.py:33-39: INSERT INTO api_keys, commit
add_api_key(rows, api_key) == Append(rows, api_key)

\* POST /add_apikey, main.py:259-272; key holds api_key, cred the X-API-Key header
AddApiKey(s) ==
    LET rq == reqs[s]
        entered == [rq EXCEPT !.invoked = TRUE]
    IN  /\ rq.pc = "add"
        /\ IF AdminRefused(rq.cred)
           THEN /\ reqs' = [reqs EXCEPT ![s] = Respond(entered, 403, "Unauthorized")]
                /\ UNCHANGED <<api_keys, inserted>>
           ELSE IF IntegrityError(api_keys, rq.key)
           THEN /\ reqs' = [reqs EXCEPT ![s] =
                      Respond(entered, 400, "API Key already exists")]
                /\ UNCHANGED <<api_keys, inserted>>
           ELSE /\ api_keys' = add_api_key(api_keys, rq.key)
                /\ inserted' = inserted \cup {rq.key}
                /\ reqs' = [reqs EXCEPT ![s] =
                      Respond(entered, 200, "API Key added successfully")]
        /\ UNCHANGED <<now, backendUp, store, redis_connections, nextHandle,
                       limiter, nreq, rate_seen, rate_admitted>>

(* --------------------------------- /metrics ---------------------------- *)
\* GET /metrics, the mounted prometheus ASGI app (main.py:71, metrics.py:6):
\* rate_limit_middleware returns call_next at once for this path
\* (main.py:101-102); the app has no dependencies and renders the registry.
Export(s) ==
    LET rq == reqs[s]
    IN  /\ rq.pc = "export"
        /\ reqs' = [reqs EXCEPT ![s] = Respond([rq EXCEPT !.invoked = TRUE], 200, "")]
        /\ UNCHANGED <<now, backendUp, store, redis_connections, nextHandle, api_keys,
                       limiter, nreq, rate_seen, rate_admitted, inserted>>

\* the response has been sent; the slot is free for the next request
Finish(s) ==
    /\ reqs[s].pc = "done"
    /\ reqs' = [reqs EXCEPT ![s] = IdleReq]
    /\ UNCHANGED <<now, backendUp, store, redis_connections, nextHandle, api_keys,
                   limiter, nreq, rate_seen, rate_admitted, inserted>>

(* ------------------------------ environment ---------------------------- *)
\* step seconds pass: Redis drops the entries whose expiry has been reached
Expire(st, t) ==
    [x \in DOMAIN st |-> IF st[x].present /\ st[x].exp # 0 /\ st[x].exp <= t
                         THEN Absent ELSE st[x]]

Tick(step, horizon) ==
    /\ now + step <= T0 + horizon
    /\ now' = now + step
    /\ store' = Expire(store, now + step)
    /\ limiter' = [x \in {k \in DOMAIN limiter : limiter[k].exp > now + step} |-> limiter[x]]
    /\ UNCHANGED <<backendUp, redis_connections, nextHandle, api_keys, reqs, nreq,
                   rate_seen, rate_admitted, inserted>>

\* the Redis server becomes unreachable / reachable again; its data survive
BackendDown ==
    /\ backendUp
    /\ backendUp' = FALSE
    /\ UNCHANGED <<now, store, redis_connections, nextHandle, api_keys, limiter,
                   reqs, nreq, rate_seen, rate_admitted, inserted>>

BackendBack ==
    /\ ~backendUp
    /\ backendUp' = TRUE
    /\ UNCHANGED <<now, store, redis_connections, nextHandle, api_keys, limiter,
                   reqs, nreq, rate_seen, rate_admitted, inserted>>

(* ---------------------------- specifications --------------------------- *)
\* the five data operations of one caller, with a registered or an unknown
\* X-API-Key (the header is required: a request without it is refused by
\* request validation and is not part of the model)
StartData ==
    /\ nreq < MaxReqs
    /\ \E op \in DataOps, cred \in Creds, k \in Keys, d \in DbInputs :
          IF op \in {"create", "update"}
          THEN \E v \in Values, t \in TtlInputs : Start(1, op, REMOTE, cred, k, d, v, t)
          ELSE Start(1, op, REMOTE, cred, k, d, "", NoneV)

Next ==
    \/ StartData
    \/ Auth(1)
    \/ Limit(1)
    \/ Acquire(1)
    \/ Exists(1)
    \/ Write(1)
    \/ GetValue(1)
    \/ TtlCall(1)
    \/ Finish(1)
    \/ Tick(1, MaxTicks)

Spec == Init /\ [][Next]_vars

\* --- rate limiting: two callers, valid and invalid credentials, one route
StartRate ==
    /\ nreq < MaxRateReqs
    /\ \E ip \in Ips, cred \in Creds : Start(1, "ttl", ip, cred, "a", 0, "", NoneV)

NextRate ==
    \/ StartRate
    \/ Auth(1)
    \/ Limit(1)
    \/ Acquire(1)
    \/ TtlCall(1)
    \/ Finish(1)
    \/ Tick(limiter_seconds, MaxRateTicks * limiter_seconds)

SpecRate == Init /\ [][NextRate]_vars

\* --- the global ceiling: a series of distinct callers, each sending no more
\* than its own cap of default_limit requests
StartFresh ==
    /\ nreq < global_limit + 1
    /\ Start(1, "ttl", Caller(nreq \div default_limit), "k1", "a", 0, "", NoneV)

NextGlobal ==
    \/ StartFresh
    \/ Auth(1)
    \/ Limit(1)
    \/ Acquire(1)
    \/ TtlCall(1)
    \/ Finish(1)

SpecGlobal == Init /\ [][NextGlobal]_vars

\* --- the connection cache under backend outages
StartConn ==
    /\ nreq < MaxConnReqs
    /\ \E d \in ModelDbs : Start(1, "ttl", REMOTE, "k1", "a", d, "", NoneV)

NextConn ==
    \/ StartConn
    \/ Auth(1)
    \/ Limit(1)
    \/ Acquire(1)
    \/ TtlCall(1)
    \/ Finish(1)
    \/ BackendDown
    \/ BackendBack

SpecConn == Init /\ [][NextConn]_vars

\* --- the credential store: /add_apikey in a worker thread beside data requests
InitKeys ==
    /\ now = T0
    /\ backendUp = TRUE
    /\ store = [x \in ModelDbs \X Keys |-> Absent]
    /\ redis_connections = [x \in {} |-> 0]
    /\ nextHandle = 1
    /\ api_keys = <<>>
    /\ limiter = [x \in {} |-> [count |-> 0, exp |-> 0]]
    /\ reqs = [s \in Slots |-> IdleReq]
    /\ nreq = 0
    /\ rate_seen = [x \in {} |-> 0]
    /\ rate_admitted = [x \in {} |-> 0]
    /\ inserted = {}

AdminHeaders == {ADMIN_API_KEY, "k1", "bad"}
NewKeys == {"k1", "k2"}

StartAdd ==
    /\ nreq < MaxKeyReqs
    /\ \E x \in AdminHeaders, k \in NewKeys :
          Start(2, "add_apikey", REMOTE, x, k, 0, "", NoneV)

StartKeyed ==
    /\ nreq < MaxKeyReqs
    /\ \E cred \in NewKeys \cup {ADMIN_API_KEY} :
          Start(1, "ttl", REMOTE, cred, "a", 0, "", NoneV)

NextKeys ==
    \/ StartAdd
    \/ StartKeyed
    \/ AddApiKey(2)
    \/ Auth(1)
    \/ Limit(1)
    \/ Acquire(1)
    \/ TtlCall(1)
    \/ Finish(1)
    \/ Finish(2)

SpecKeys == InitKeys /\ [][NextKeys]_vars

\* --- the whole chain: every route, /add_apikey and /metrics included, with
\* registered, unknown and administrator credentials, under backend outages
ChainOps == DataOps \cup {"add_apikey", "metrics"}
ChainCreds == Creds \cup {ADMIN_API_KEY}

StartAny ==
    /\ nreq < MaxChainReqs
    /\ \E op \in ChainOps, cred \in ChainCreds :
          Start(1, op, REMOTE, cred, "a", 0, "v2", NoneV)

NextChain ==
    \/ StartAny
    \/ Auth(1)
    \/ Limit(1)
    \/ Acquire(1)
    \/ Exists(1)
    \/ Write(1)
    \/ GetValue(1)
    \/ TtlCall(1)
    \/ AddApiKey(1)
    \/ Export(1)
    \/ Finish(1)
    \/ BackendDown
    \/ BackendBack

SpecChain == Init /\ [][NextChain]_vars

\* --- round trip: one caller creates a key, then reads it back; the second
\* request is sent once the first has been answered
RoundTtls == {NoneV, IntV(1), IntV(2)}

StartCreate ==
    /\ nreq < MaxRoundReqs
    /\ \E k \in Keys, d \in ModelDbs, v \in Values, t \in RoundTtls :
          Start(1, "create", REMOTE, "k1", k, d, v, t)

StartGet ==
    /\ nreq < MaxRoundReqs
    /\ reqs[1].pc = "done" /\ reqs[1].op = "create"
    /\ \E k \in Keys, d \in ModelDbs : Start(2, "get", REMOTE, "k1", k, d, "", NoneV)

NextRound ==
    \/ StartCreate
    \/ StartGet
    \/ Auth(1) \/ Auth(2)
    \/ Limit(1) \/ Limit(2)
    \/ Acquire(1) \/ Acquire(2)
    \/ Exists(1) \/ Exists(2)
    \/ Write(1)
    \/ GetValue(2)
    \/ TtlCall(2)
    \/ Finish(1) \/ Finish(2)
    \/ Tick(1, MaxRoundTicks)

SpecRound == Init /\ [][NextRound]_vars

\* --- update: two keys in two databases, some of them with an expiry set
\* earlier; one caller in turns updates a key and, once that is answered,
\* asks for a TTL; the next update is sent when no TTL Query is outstanding
UpdKeys == {"a", "b"}

InitUpdate ==
    /\ now = T0
    /\ backendUp = TRUE
    /\ store = [x \in ModelDbs \X UpdKeys |->
                  IF x = <<0, "a">> THEN Entry("v1", T0 + 1)
                  ELSE IF x = <<0, "b">> THEN Entry("v1", 0)
                  ELSE IF x = <<max_dbs, "a">> THEN Entry("v2", T0 + 2)
                  ELSE Absent]
    /\ redis_connections = [x \in {} |-> 0]
    /\ nextHandle = 1
    /\ api_keys = <<"k1">>
    /\ limiter = [x \in {} |-> [count |-> 0, exp |-> 0]]
    /\ reqs = [s \in Slots |-> IdleReq]
    /\ nreq = 0
    /\ rate_seen = [x \in {} |-> 0]
    /\ rate_admitted = [x \in {} |-> 0]
    /\ inserted = {"k1"}

StartUpdate ==
    /\ nreq < MaxUpdReqs
    /\ reqs[2].pc = "idle"
    /\ \E k \in UpdKeys, d \in ModelDbs, v \in Values, t \in TtlInputs :
          Start(1, "update", REMOTE, "k1", k, d, v, t)

StartTtl ==
    /\ nreq < MaxUpdReqs
    /\ reqs[1].pc = "done" /\ reqs[1].op = "update"
    /\ \E k \in UpdKeys, d \in ModelDbs : Start(2, "ttl", REMOTE, "k1", k, d, "", NoneV)

NextUpdate ==
    \/ StartUpdate
    \/ StartTtl
    \/ Auth(1) \/ Auth(2)
    \/ Limit(1) \/ Limit(2)
    \/ Acquire(1) \/ Acquire(2)
    \/ Exists(1)
    \/ Write(1)
    \/ TtlCall(2)
    \/ Finish(1) \/ Finish(2)
    \/ Tick(1, MaxUpdTicks)

SpecUpdate == InitUpdate /\ [][NextUpdate]_vars

\* --- the connection cache under concurrent requests: two requests in
\* flight at once, valid and invalid indices, backend outages
StartPool(s) ==
    /\ nreq < MaxPoolReqs
    /\ \E d \in DbInputs : Start(s, "ttl", REMOTE, "k1", "a", d, "", NoneV)

NextPool ==
    \/ StartPool(1) \/ StartPool(2)
    \/ Auth(1) \/ Auth(2)
    \/ Limit(1) \/ Limit(2)
    \/ Acquire(1) \/ Acquire(2)
    \/ TtlCall(1) \/ TtlCall(2)
    \/ Finish(1) \/ Finish(2)
    \/ BackendDown
    \/ BackendBack

SpecPool == Init /\ [][NextPool]_vars

\* --- two concurrent Create requests of one caller, the clock running
StartCreateAt(s) ==
    /\ nreq < MaxCreateReqs
    /\ \E k \in Keys, d \in ModelDbs, v \in Values, t \in TtlInputs :
          Start(s, "create", REMOTE, "k1", k, d, v, t)

NextCreate ==
    \/ StartCreateAt(1) \/ StartCreateAt(2)
    \/ Auth(1) \/ Auth(2)
    \/ Limit(1) \/ Limit(2)
    \/ Acquire(1) \/ Acquire(2)
    \/ Exists(1) \/ Exists(2)
    \/ Write(1) \/ Write(2)
    \/ Finish(1) \/ Finish(2)
    \/ Tick(1, MaxCreateTicks)

SpecCreate == Init /\ [][NextCreate]_vars

(* ================================ claims =============================== *)
Done(s) == reqs[s].pc = "done"
ValidIndex(d) == d >= 0 /\ d <= 15

\* C1: a Create whose key already exists in db d (valid credential, backend
\* reachable) answers 400 "Key already exists" and writes nothing.
C1_CreateExistingIsConflict ==
    \A s \in Slots :
        (Done(s) /\ reqs[s].op = "create" /\ reqs[s].existed = "yes")
            => /\ reqs[s].status = 400
               /\ reqs[s].detail = "Key already exists"
               /\ reqs[s].writes = 0

\* C2: Update, Get, Delete and TTL Query on a key absent from db d answer
\* 404 "Key not found" and write nothing.
C2_MissingKeyIsNotFound ==
    \A s \in Slots :
        (Done(s) /\ reqs[s].op \in {"update", "get", "delete", "ttl"}
                 /\ reqs[s].existed = "no")
            => /\ reqs[s].status = 404
               /\ reqs[s].detail = "Key not found"
               /\ reqs[s].writes = 0

\* C3: for a db index outside [0,15] every data handler answers 400 without
\* any backend call and without touching the connection cache.
C3_BadIndexIsInvalidArgument ==
    \A s \in Slots :
        (Done(s) /\ reqs[s].op \in DataOps /\ reqs[s].limited
                 /\ ~ValidIndex(reqs[s].db))
            => /\ reqs[s].status = 400
               /\ reqs[s].calls = 0
               /\ reqs[s].cacheWrites = 0

Members(rows) == {rows[i] : i \in 1..Len(rows)}
StepOf(s) == reqs[s].op \in DataOps /\ reqs'[s] # reqs[s]

\* C4: a data request whose credential is not in the Credential Store is
\* answered 403; none of its steps changes a rate-limit counter, the
\* connection cache or the backend, and its handler body never runs.
C4_UnauthorizedShortCircuits ==
    /\ [](\A s \in Slots :
            (Done(s) /\ reqs[s].op \in DataOps /\ reqs[s].cred \notin Members(api_keys))
                => /\ reqs[s].status = 403
                   /\ ~reqs[s].limited /\ reqs[s].ordinal = 0
                   /\ ~reqs[s].invoked
                   /\ reqs[s].calls = 0 /\ reqs[s].cacheWrites = 0)
    /\ [][\A s \in Slots :
            (StepOf(s) /\ reqs[s].cred \notin Members(api_keys))
                => UNCHANGED <<limiter, rate_seen, rate_admitted,
                               redis_connections, store>>]_vars

C4_Witness ==
    \E s \in Slots :
        /\ Done(s) /\ reqs[s].op \in DataOps
        /\ reqs[s].cred \notin Members(api_keys)
        /\ reqs[s].status = 403
        /\ limiter # << >>

\* C5: within one 60-second window the N-th authenticated request of a caller
\* is admitted and the (N+1)-th is answered 429, N = 100 for 127.0.0.1 and
\* N = 5 for any other caller; ordinal is the request's rank among the
\* caller's authenticated requests of its window.
C5_PerCallerCap ==
    \A s \in Slots :
        (Done(s) /\ reqs[s].op \in DataOps /\ reqs[s].ordinal >= 1)
            => /\ (reqs[s].ordinal <= IpLimit(reqs[s].ip) => reqs[s].status # 429)
               /\ (reqs[s].ordinal = IpLimit(reqs[s].ip) + 1 => reqs[s].status = 429)

\* C6: in one 60-second window no more than 1000 requests are admitted, all
\* callers together.
C6_GlobalCap ==
    \A w \in DOMAIN rate_admitted : rate_admitted[w] <= global_limit

AcquireOver(s) == reqs[s].acquired # "no" /\ ValidIndex(reqs[s].db)

\* C7: acquire ends with a handle or an error after at most max_retries
\* attempts, and when the backend was unreachable throughout the call it ends
\* with the BackendUnavailable error.
C7_AcquireBoundedThenUnavailable ==
    \A s \in Slots :
        AcquireOver(s)
            => /\ reqs[s].acquired \in {"handle", "error"}
               /\ reqs[s].probes <= max_retries
               /\ (reqs[s].downAll => reqs[s].acquired = "error")

Reused(s) ==
    /\ AcquireOver(s)
    /\ reqs[s].acquired = "handle"
    /\ reqs[s].cachedAtStart # NoHandle

\* C8 (as stated): an acquire that finds a handle cached returns that handle,
\* leaves the cache entry alone and issues no liveness probe.
C8_ReuseWithoutProbe ==
    \A s \in Slots :
        Reused(s)
            => /\ reqs[s].r = reqs[s].cachedAtStart
               /\ redis_connections[reqs[s].db] = reqs[s].cachedAtStart
               /\ reqs[s].probes = 0

\* C8 (amended): an acquire that finds a handle cached and succeeds returns
\* that same handle and leaves the cache entry alone, after one liveness
\* probe per attempt of that call, the last of which succeeded; this holds
\* also when earlier probes of the call failed (disconnect, then reconnect).
C8_ReuseAfterProbe ==
    \A s \in Slots :
        Reused(s)
            => /\ reqs[s].r = reqs[s].cachedAtStart
               /\ redis_connections[reqs[s].db] = reqs[s].cachedAtStart
               /\ reqs[s].cacheWrites = 0
               /\ reqs[s].probes = reqs[s].attempt + 1

C8_Witness ==
    \E s \in Slots : Reused(s) /\ reqs[s].attempt >= 1 /\ reqs[s].status = 200

\* C9: every handle acquire returns has answered a ping during that call.
C9_ReturnedHandleWasProbed ==
    \A s \in Slots :
        (AcquireOver(s) /\ reqs[s].acquired = "handle") => reqs[s].probes >= 1

AddStep(s) == reqs[s].pc = "add" /\ reqs'[s].pc = "done"
AuthStep(s) == reqs[s].pc = "auth" /\ reqs'[s].pc # "auth"
Unique(rows) == \A i, j \in 1..Len(rows) : rows[i] = rows[j] => i = j

\* C10: /add_apikey inserts only under the administrator secret (403 and no
\* change otherwise), refuses a key already present with 400 and no change,
\* so the keys stay unique; nothing else changes the store, and a credential
\* passes the authentication gate iff it was inserted before.
C10_AdminOnlyUniqueInsertion ==
    /\ [](Unique(api_keys) /\ Members(api_keys) = inserted)
    /\ [][\A s \in Slots :
            AddStep(s) =>
              /\ (reqs[s].cred # ADMIN_API_KEY
                    => reqs'[s].status = 403 /\ api_keys' = api_keys)
              /\ (reqs[s].cred = ADMIN_API_KEY /\ reqs[s].key \in Members(api_keys)
                    => reqs'[s].status = 400 /\ api_keys' = api_keys)
              /\ (reqs[s].cred = ADMIN_API_KEY /\ reqs[s].key \notin Members(api_keys)
                    => reqs'[s].status = 200 /\ api_keys' = Append(api_keys, reqs[s].key))]_vars
    /\ [][api_keys' # api_keys => \E s \in Slots : AddStep(s)]_vars
    /\ [][\A s \in Slots :
            AuthStep(s) =>
              /\ (reqs'[s].pc = "limit" <=> reqs[s].cred \in inserted)
              /\ (reqs'[s].pc # "limit" => reqs'[s].status = 403)]_vars

C10_Witness ==
    /\ Done(2) /\ reqs[2].op = "add_apikey" /\ reqs[2].status = 400
    /\ reqs[1].pc = "limit" /\ reqs[1].cred \in inserted

\* C11: every handler other than /metrics runs only after the gates: a data
\* handler after the authentication gate and a rate-limit admission decision,
\* /add_apikey after a rate-limit admission decision; /metrics alone is
\* served without authentication and without a rate-limit decision.
C11_NoDispatchWithoutRateDecision ==
    \A s \in Slots :
        /\ (reqs[s].op \in DataOps /\ reqs[s].invoked)
              => reqs[s].limited /\ reqs[s].cred \in Members(api_keys)
        /\ (reqs[s].op = "add_apikey" /\ reqs[s].invoked) => reqs[s].limited
        /\ (reqs[s].op = "metrics" /\ reqs[s].invoked)
              => ~reqs[s].limited /\ reqs[s].status = 200

\* C12: a successful Create(k, v, d, t) followed by a successful Get(k, d),
\* no other write and no expiry in between, returns v; with t given the ttl
\* returned is a number with 0 < ttl <= t, with no t it is none.
C12_CreateThenGetRoundTrip ==
    (/\ Done(1) /\ reqs[1].op = "create" /\ reqs[1].status = 200
     /\ Done(2) /\ reqs[2].op = "get" /\ reqs[2].status = 200
     /\ reqs[2].key = reqs[1].key /\ reqs[2].db = reqs[1].db
     /\ RedisExists(store, reqs[1].db, reqs[1].key))
        => /\ reqs[2].out_value = reqs[1].val
           /\ IF reqs[1].ttl.kind = "int"
              THEN /\ reqs[2].out_ttl.kind = "int"
                   /\ 0 < reqs[2].out_ttl.n
                   /\ reqs[2].out_ttl.n <= reqs[1].ttl.n
              ELSE reqs[2].out_ttl = NoneV

\* C13: a TTL Query whose backend call was answered maps the reply: a key
\* without expiry gives 200 with the string "No TTL set", a key with an
\* expiry gives 200 with a number, an absent key gives 404 "Key not found";
\* the ttl of a 200 answer is never a number that is zero or negative.
C13_TtlQueryMapping ==
    \A s \in Slots :
        (Done(s) /\ reqs[s].op = "ttl")
            => LET e == Lookup(store, reqs[s].db, reqs[s].key)
               IN  /\ reqs[s].existed = "no"
                        => reqs[s].status = 404 /\ reqs[s].detail = "Key not found"
                   /\ reqs[s].existed = "yes"
                        => /\ reqs[s].status = 200
                           /\ ~ (reqs[s].out_ttl.kind = "int" /\ reqs[s].out_ttl.n <= 0)
                           /\ (e.present /\ e.exp = 0) => reqs[s].out_ttl = StrNoTTL
                           /\ (e.present /\ e.exp # 0) => reqs[s].out_ttl.kind = "int"

\* a liveness probe of this acquire failed: the cached handle was found dead
ProbeFailed(s) == reqs[s].attempt >= 1 \/ reqs[s].acquired = "error"

\* C14: an acquire that finds a cached handle dead (a probe of the call
\* failed) does not leave that handle in the cache: when the call is over the
\* entry of the index is a different handle, and a handle the call returns is
\* that new entry.
C14_DeadHandleReplaced ==
    \A s \in Slots :
        (AcquireOver(s) /\ reqs[s].cachedAtStart # NoHandle /\ ProbeFailed(s))
            => /\ redis_connections[reqs[s].db] # reqs[s].cachedAtStart
               /\ reqs[s].acquired = "handle"
                     => reqs[s].r = redis_connections[reqs[s].db]

\* C15: every request that completes, whatever its outcome, has been counted
\* exactly once in request_count, under the label of the status it was
\* answered with.
C15_EveryRequestCountedOnce ==
    \A s \in Slots :
        Done(s) => reqs[s].counted = 1 /\ reqs[s].label = reqs[s].status

\* the r.set(...) step of an update that is answered 200
UpdateWrites(s) ==
    reqs[s].op = "update" /\ reqs[s].pc = "write" /\ reqs'[s].status = 200

\* a TTL Query on the key of the update answered before it
TtlAfterUpdate ==
    /\ Done(1) /\ reqs[1].op = "update" /\ reqs[1].status = 200
    /\ Done(2) /\ reqs[2].op = "ttl"
    /\ reqs[2].key = reqs[1].key /\ reqs[2].db = reqs[1].db

\* C16: an Update of an existing key stores the new value, with the expiry
\* now + ttl when a TTL is supplied and with no expiry when it is omitted,
\* whatever expiry the key had; it changes no other key and no other db, and
\* no other step of an update changes the store.  A key is gone once its
\* expiry is reached, and a TTL Query that follows an Update without TTL
\* reports "No TTL set" (a number no larger than the TTL after one with TTL).
C16_UpdateSetsValueAndExpiry ==
    /\ [][\A s \in Slots :
            LET x == <<reqs[s].db, reqs[s].key>>
            IN  (UpdateWrites(s) /\ store[x].present)
                   => /\ store'[x] = Entry(reqs[s].val,
                                           IF reqs[s].ttl.kind = "int"
                                           THEN now + reqs[s].ttl.n ELSE 0)
                      /\ DOMAIN store' = DOMAIN store
                      /\ \A y \in DOMAIN store \ {x} : store'[y] = store[y]]_vars
    /\ [][\A s \in Slots :
            (reqs[s].op = "update" /\ reqs'[s] # reqs[s] /\ ~UpdateWrites(s))
                => store' = store]_vars
    /\ [](\A x \in DOMAIN store :
            (store[x].present /\ store[x].exp # 0) => store[x].exp > now)
    /\ [](TtlAfterUpdate /\ reqs[2].existed = "yes"
            => /\ reqs[2].status = 200
               /\ IF reqs[1].ttl.kind = "int"
                  THEN /\ reqs[2].out_ttl.kind = "int"
                       /\ reqs[2].out_ttl.n <= reqs[1].ttl.n
                  ELSE reqs[2].out_ttl = StrNoTTL)

\* an update without TTL of a key that had an expiry, and the key outlives
\* that expiry: the TTL Query after it reports "No TTL set"
C16_Witness ==
    /\ TtlAfterUpdate
    /\ reqs[1].key = "a" /\ reqs[1].db = 0 /\ reqs[1].ttl = NoneV
    /\ reqs[2].status = 200 /\ reqs[2].out_ttl = StrNoTTL
    /\ now > T0 + 1
    /\ store[<<0, "a">>] = Entry(reqs[1].val, 0)
    /\ store[<<0, "b">>] = Entry("v1", 0)

InAcquire(s) == reqs[s].pc = "acquire"
Established(s) == reqs[s].cacheWrites >= 1

\* C17: the probe-then-replace sequences of concurrent requests do not
\* overlap: at most one request is inside get_redis_connection at a time, no
\* two requests establish a handle for the same index after observing the
\* same cache entry (missing or dead), every handle ever established is in
\* the cache (none was overwritten), and a request working with a handle
\* holds the one the cache has for its index.
C17_AcquireSerialized ==
    /\ \A s, o \in Slots : (s # o /\ InAcquire(s)) => ~InHandler(reqs[o])
    /\ \A s, o \in Slots :
          (s # o /\ Established(s) /\ Established(o) /\ reqs[s].db = reqs[o].db)
              => reqs[s].cachedAtStart # reqs[o].cachedAtStart
    /\ Cardinality(DOMAIN redis_connections) = nextHandle - 1
    /\ \A s \in Slots :
          (InHandler(reqs[s]) /\ reqs[s].acquired = "handle")
              => reqs[s].r = redis_connections[reqs[s].db]

\* two requests in flight for the same index, which is not cached: one is
\* inside the handler after establishing the handle, the other one waits
C17_Witness ==
    /\ reqs[1].pc = "ttl" /\ Established(1)
    /\ reqs[2].pc = "limit" /\ reqs[2].db = reqs[1].db

\* C18: the cache holds one client per cached index, every cached index is
\* an integer in [0,15], the client cached under i is bound to database i
\* (and is no other index's client); no step but an acquire changes the
\* cache, and an acquire for index i leaves the entry of every j # i as it was.
C18_CacheInvariant ==
    /\ [](\A i \in DOMAIN redis_connections :
            /\ i \in Int /\ i >= 0 /\ i <= 15
            /\ redis_connections[i].db = i
            /\ \A j \in DOMAIN redis_connections :
                  redis_connections[j].id = redis_connections[i].id => j = i)
    /\ [][redis_connections' # redis_connections
            => \E s \in Slots :
                  /\ InAcquire(s) /\ reqs'[s] # reqs[s]
                  /\ DOMAIN redis_connections' = DOMAIN redis_connections \cup {reqs[s].db}
                  /\ \A j \in DOMAIN redis_connections \ {reqs[s].db} :
                        redis_connections'[j] = redis_connections[j]]_vars

\* both valid indices are cached and a request for an index outside [0,15]
\* has been through acquire
C18_Witness ==
    /\ DOMAIN redis_connections = ModelDbs
    /\ \E s \in Slots : Done(s) /\ reqs[s].acquired = "invalid" /\ reqs[s].db = max_dbs + 1

\* C19: a Get answered 200 carries a value (never null) and a ttl that is not
\* a negative number, also when the key expires between the handler's
\* existence check and its get and ttl calls.
C19_GetSuccessIsComplete ==
    \A s \in Slots :
        (Done(s) /\ reqs[s].op = "get" /\ reqs[s].status = 200)
            => /\ reqs[s].out_value # ""
               /\ ~ (reqs[s].out_ttl.kind = "int" /\ reqs[s].out_ttl.n < 0)

\* the r.set(...) step of a create that is answered 200
CreateWrites(s) ==
    reqs[s].op = "create" /\ reqs[s].pc = "write" /\ reqs'[s].status = 200

Created(s) ==
    Done(s) /\ reqs[s].op = "create" /\ reqs[s].status = 200
            /\ reqs[s].detail = "Key created successfully"

\* the first two requests are two Creates of the same key in the same db
TwoCreates ==
    /\ nreq = 2
    /\ Done(1) /\ reqs[1].op = "create" /\ reqs[1].limited
    /\ Done(2) /\ reqs[2].op = "create" /\ reqs[2].limited
    /\ reqs[1].key = reqs[2].key /\ reqs[1].db = reqs[2].db

====
